---- MODULE Spec2Model ----
(***************************************************************************)
(* Model of the saved-places seeder (npm run seed, src/unnamed/part_003)   *)
(* of graphql-neo4j: Loader, Normalizer, Batcher, Constraint Initializer,  *)
(* Graph Writer and the orchestrating main(), writing into a Neo4j store.  *)
(* Each batch is written through session.executeWrite, the driver's        *)
(* managed transaction: the work runs in a transaction that commits when   *)
(* the work returns and rolls back when it throws, and the driver runs the *)
(* work again after a retriable error until its retry time is used up.     *)
(*                                                                         *)
(* JavaScript values are written as their literals: "undefined", "null",   *)
(* "''" (the empty string), "'Tokyo'", "true", "false", "0", "35.68",      *)
(* "NaN", "Infinity".  A node property whose value is "null" is absent     *)
(* (Cypher SET p.x = null removes the property).                           *)
(***************************************************************************)
EXTENDS Integers, Sequences, FiniteSets, TLC

\* ------------------------------------------------------------------ bounds
\* number of seeder processes run one after the other
MaxRuns == 3
\* number of times the driver's managed transaction re-executes the work
\* after a retriable error before it gives up (its retry time is finite)
MaxRetry == 1

\* chunk is applied to collections of up to MaxChunkLen records, in groups of
\* up to MaxChunkSize, and to the lengths around CHUNK_SIZE with CHUNK_SIZE
MaxChunkLen == 12
MaxChunkSize == 4
\* normalizePlace is applied to coordinates arrays of up to MaxCoordinates
\* items, and the map/filter of main to up to MaxFeatures features
MaxCoordinates == 3
MaxFeatures == 3

\* ------------------------------------------------------- program constants
CHUNK_SIZE == 100

\* ------------------------------------------------------ JavaScript values
Falsy == {"undefined", "null", "''", "false", "0", "NaN"}
\* mutant: only null and undefined count as false
TruthyNonNullish(v) == v \notin {"undefined", "null"}

Truthy(v) == v \notin Falsy
Nullish(v) == v \in {"undefined", "null"}
\* mutant: a || b in place of a ?? b
CoalesceOr(a, b) == IF a \notin Falsy THEN a ELSE b

\* a ?? b
Coalesce(a, b) == IF Nullish(a) THEN b ELSE a
\* a || b
OrElse(a, b) == IF Truthy(a) THEN a ELSE b
\* the literals v with typeof v === 'number'
NumberLits == {"0", "35.68", "139.69", "NaN", "Infinity"}
TypeofNumber(v) == v \in NumberLits
NumberIsFinite(v) == TypeofNumber(v) /\ v \notin {"NaN", "Infinity"}

\* a coordinates value: an array of items, or the non-array literal lit
Arr(items) == [isArray |-> TRUE, items |-> items, lit |-> "array"]
NotArr(lit) == [isArray |-> FALSE, items |-> <<>>, lit |-> lit]

\* ------------------------------------------------------------ raw features
\* A raw feature of SavedPlaces.json.  isNull marks a null object at that
\* level; a missing member is the literal "undefined".
RawFeature(coords, name, address, url, prefecture, category, notes, saved_list, visited, visited_date, tabelog_rating, date) ==
  [isNull |-> FALSE,
   geometry |-> [isNull |-> FALSE, coordinates |-> coords],
   properties |->
     [isNull |-> FALSE,
      location |-> [isNull |-> FALSE, name |-> name, address |-> address],
      google_maps_url |-> url, prefecture |-> prefecture,
      category |-> category, notes |-> notes, saved_list |-> saved_list,
      visited |-> visited, visited_date |-> visited_date,
      tabelog_rating |-> tabelog_rating, date |-> date]]

\* the features the input files are made of, by name
Features ==
  [fA |-> RawFeature(Arr(<<"139.69", "35.68">>), "'Senso-ji'", "'2-3-1 Asakusa'",
                     "'maps/1'", "'Tokyo'", "'place'", "'go early'", "'star'",
                     "false", "'2024-04-01'", "'3.58'", "'2023-11-05'"),
   fB |-> RawFeature(NotArr("undefined"), "'Sensoji Temple'", "undefined",
                     "'maps/1'", "'Osaka'", "undefined", "''", "undefined",
                     "undefined", "undefined", "undefined", "undefined"),
   fC |-> RawFeature(Arr(<<"0", "0">>), "'Senso-ji'", "'2-3-1 Asakusa'",
                     "'maps/1'", "undefined", "'region'", "undefined", "'heart'",
                     "true", "undefined", "undefined", "'2023-11-05'"),
   fD |-> RawFeature(Arr(<<"139.69", "NaN">>), "'Tokyo Tower'", "'4-2-8 Shibakoen'",
                     "'maps/2'", "'Tokyo'", "''", "undefined", "'want_to_go'",
                     "null", "undefined", "undefined", "undefined"),
   fE |-> RawFeature(Arr(<<"139.69", "35.68">>), "''", "'nowhere'",
                     "'maps/3'", "'Tokyo'", "'place'", "undefined", "undefined",
                     "undefined", "undefined", "undefined", "undefined"),
   fF |-> RawFeature(Arr(<<"139.69", "35.68">>), "'No link'", "undefined",
                     "undefined", "'Kyoto'", "'place'", "undefined", "undefined",
                     "undefined", "undefined", "undefined", "undefined")]

FeatureNames == DOMAIN Features

\* -------------------------------------------------------------- Normalizer
\* mutant: without Number.isFinite
isValidCoordinateAnyNumber(value) ==
  /\ value.isArray
  /\ Len(value.items) = 2
  /\ \A i \in 1..Len(value.items) : TypeofNumber(value.items[i])

\* mutant: value.some in place of value.every
isValidCoordinateSome(value) ==
  /\ value.isArray
  /\ Len(value.items) = 2
  /\ \E i \in 1..Len(value.items) :
        TypeofNumber(value.items[i]) /\ NumberIsFinite(value.items[i])

isValidCoordinate(value) ==
  /\ value.isArray
  /\ Len(value.items) = 2
  /\ \A i \in 1..Len(value.items) :
        TypeofNumber(value.items[i]) /\ NumberIsFinite(value.items[i])

\* the value of an empty object {} at each level
EmptyLocation == [isNull |-> FALSE, name |-> "undefined", address |-> "undefined"]
EmptyProperties ==
  [isNull |-> FALSE, location |-> EmptyLocation,
   google_maps_url |-> "undefined", prefecture |-> "undefined",
   category |-> "undefined", notes |-> "undefined", saved_list |-> "undefined",
   visited |-> "undefined", visited_date |-> "undefined",
   tabelog_rating |-> "undefined", date |-> "undefined"]
EmptyGeometry == [isNull |-> FALSE, coordinates |-> NotArr("undefined")]

\* the rejection marker (normalizePlace returns null)
Rejected == [rejected |-> TRUE]
IsRejected(r) == "rejected" \in DOMAIN r

\* normalizePlace throws: a member of null or undefined is read
Raised == [raised |-> TRUE]
IsRaised(r) == "raised" \in DOMAIN r

\* a null or missing object
NullObject == [isNull |-> TRUE]
\* object?.member, for a member that is an object
OptionalMember(object, member) == IF object.isNull THEN NullObject ELSE object[member]

\* mutant: without ?? {}
OrEmptyNone(object, empty) == object

\* object ?? {}
OrEmpty(object, empty) == IF object.isNull THEN empty ELSE object

normalizePlace(feature) ==
  LET geometry == OrEmpty(OptionalMember(feature, "geometry"), EmptyGeometry)
      properties == OrEmpty(OptionalMember(feature, "properties"), EmptyProperties)
      location == OrEmpty(properties.location, EmptyLocation)
      coordinates == IF ~geometry.coordinates.isArray /\ Nullish(geometry.coordinates.lit)
                       THEN Arr(<<>>) ELSE geometry.coordinates
      hasCoordinates == isValidCoordinate(coordinates)
      longitude == IF hasCoordinates THEN coordinates.items[1] ELSE "null"
      latitude == IF hasCoordinates THEN coordinates.items[2] ELSE "null"
      googleMapsUrl == Coalesce(properties.google_maps_url, "null")
      prefecture == OrElse(properties.prefecture, "null")
      category == OrElse(properties.category, "'place'")
      notes == OrElse(properties.notes, "null")
  IN IF properties.isNull \/ location.isNull THEN Raised
     ELSE IF ~Truthy(location.name) THEN Rejected
     ELSE IF geometry.isNull THEN Raised
     ELSE IF ~Truthy(googleMapsUrl) THEN Rejected
     ELSE [googleMapsUrl |-> googleMapsUrl,
           name |-> location.name,
           description |-> Coalesce(notes, Coalesce(location.address, "null")),
           address |-> Coalesce(location.address, "null"),
           type |-> category,
           latitude |-> latitude,
           longitude |-> longitude,
           savedList |-> Coalesce(properties.saved_list, "null"),
           visited |-> Coalesce(properties.visited, "null"),
           visitedDate |-> Coalesce(properties.visited_date, "null"),
           tabelogRating |-> Coalesce(properties.tabelog_rating, "null"),
           dateSaved |-> Coalesce(properties.date, "null"),
           prefecture |-> prefecture]

\* ----------------------------------------------------------------- Batcher
RECURSIVE chunkFrom(_, _, _)
chunkFrom(collection, size, index) ==
  IF index < Len(collection)
    THEN LET last == IF index + size < Len(collection)
                       THEN index + size ELSE Len(collection)
         IN <<SubSeq(collection, index + 1, last)>>
              \o chunkFrom(collection, size, index + size)
    ELSE <<>>

\* mutant: slice(index, index + size + 1), a group takes one record too many
chunkOverlap(collection, size) ==
  [k \in 1..((Len(collection) + size - 1) \div size) |->
     SubSeq(collection, (k - 1) * size + 1,
            IF k * size + 1 < Len(collection) THEN k * size + 1 ELSE Len(collection))]

\* mutant: only the full groups, the remainder is dropped
chunkFullOnly(collection, size) ==
  [k \in 1..(Len(collection) \div size) |->
     SubSeq(collection, (k - 1) * size + 1, k * size)]

chunk(collection, size) == chunkFrom(collection, size, 0)

\* ------------------------------------------------------------ input files
\* pat repeated cyclically up to length n
Cycle(pat, n) == [i \in 1..n |-> pat[((i - 1) % Len(pat)) + 1]]

\* what readFile/JSON.parse find at DATA_PATH: unreadable, malformed, or a
\* document whose "features" member is an array of features or is not
InputFile(readable, wellFormed, featuresIsArray, features) ==
  [readable |-> readable, wellFormed |-> wellFormed,
   featuresIsArray |-> featuresIsArray, features |-> features]

Files ==
  [unreadable  |-> InputFile(FALSE, FALSE, FALSE, <<>>),
   malformed   |-> InputFile(TRUE, FALSE, FALSE, <<>>),
   noFeatures  |-> InputFile(TRUE, TRUE, FALSE, <<>>),
   empty       |-> InputFile(TRUE, TRUE, TRUE, <<>>),
   allRejected |-> InputFile(TRUE, TRUE, TRUE, <<"fE", "fF">>),
   tokyo       |-> InputFile(TRUE, TRUE, TRUE, <<"fA", "fF", "fD">>),
   noRegion    |-> InputFile(TRUE, TRUE, TRUE, <<"fC">>),
   dupInBatch  |-> InputFile(TRUE, TRUE, TRUE, <<"fA", "fE", "fB">>),
   twoBatches  |-> InputFile(TRUE, TRUE, TRUE, Cycle(<<"fB", "fA", "fD">>, CHUNK_SIZE + 1)),
   threeBatches |-> InputFile(TRUE, TRUE, TRUE, Cycle(<<"fD", "fC", "fE", "fB">>, 3 * CHUNK_SIZE + 33))]

FileNames == DOMAIN Files

\* payload.features when it is an array, else []
featuresOf(f) == IF Files[f].featuresIsArray THEN Files[f].features ELSE <<>>

\* features.map(normalizePlace).filter((value) => value !== null)
mapFilterFeatures(features) ==
  SelectSeq([i \in 1..Len(features) |-> normalizePlace(features[i])],
            LAMBDA value : ~IsRejected(value))

\* features.map(normalizePlace) throws: a call of normalizePlace does
mapRaises(features) == \E i \in 1..Len(features) : IsRaised(normalizePlace(features[i]))

\* the same for the features of an input file, given by name
mapFilter(names) == mapFilterFeatures([i \in 1..Len(names) |-> Features[names[i]]])

normalizedOf == [f \in FileNames |-> mapFilter(featuresOf(f))]
batchesOf == [f \in FileNames |-> chunk(normalizedOf[f], CHUNK_SIZE)]

\* ------------------------------------------------------------ graph store
\* Nodes are kept in creation order; a node is identified by its position.
\* A relationship is a pair of positions: a Region node and a Place node.
EmptyStore == [places |-> <<>>, regions |-> <<>>, rels |-> <<>>]

MutableAttributes ==
  {"name", "type", "description", "address", "latitude", "longitude",
   "prefecture", "savedList", "visited", "visitedDate", "tabelogRating",
   "dateSaved"}

\* a Place node that has only its identity key
NewPlace(googleMapsUrl) ==
  [googleMapsUrl |-> googleMapsUrl, name |-> "null", type |-> "null",
   description |-> "null", address |-> "null", latitude |-> "null",
   longitude |-> "null", prefecture |-> "null", savedList |-> "null",
   visited |-> "null", visitedDate |-> "null", tabelogRating |-> "null",
   dateSaved |-> "null"]

MatchPlaces(s, googleMapsUrl) ==
  {i \in 1..Len(s.places) : s.places[i].googleMapsUrl = googleMapsUrl}

MatchRegions(s, name) ==
  {i \in 1..Len(s.regions) : s.regions[i].name = name}

\* mutant: CREATE in place of MERGE, a new Place node for every record
MergePlaceCreate(s, googleMapsUrl) ==
  [s EXCEPT !.places = Append(@, NewPlace(googleMapsUrl))]

\* MERGE (place:Place {googleMapsUrl: $googleMapsUrl})
MergePlace(s, googleMapsUrl) ==
  IF MatchPlaces(s, googleMapsUrl) = {}
    THEN [s EXCEPT !.places = Append(@, NewPlace(googleMapsUrl))]
    ELSE s

\* mutant: a merge of the non-null fields, an absent value keeps the old one
SetPlaceNonNull(node, place) ==
  [a \in DOMAIN node |->
     IF a = "googleMapsUrl" \/ place[a] = "null" THEN node[a] ELSE place[a]]

\* mutant: ON CREATE SET, a node that was written before keeps its values
SetPlaceOnCreate(node, place) ==
  IF node.name = "null"
    THEN [a \in DOMAIN node |-> IF a = "googleMapsUrl" THEN node[a] ELSE place[a]]
    ELSE node

\* SET place.name = $name, ..., place.dateSaved = $dateSaved
SetPlace(node, place) ==
  [googleMapsUrl |-> node.googleMapsUrl,
   name |-> place.name,
   type |-> place.type,
   description |-> place.description,
   address |-> place.address,
   latitude |-> place.latitude,
   longitude |-> place.longitude,
   prefecture |-> place.prefecture,
   savedList |-> place.savedList,
   visited |-> place.visited,
   visitedDate |-> place.visitedDate,
   tabelogRating |-> place.tabelogRating,
   dateSaved |-> place.dateSaved]

\* mutant: CREATE in place of MERGE, a new Region node for every record
MergeRegionCreate(s, name) ==
  [s EXCEPT !.regions = Append(@, [name |-> name])]

\* MERGE (region:Region {name: $prefecture})
MergeRegion(s, name) ==
  IF MatchRegions(s, name) = {}
    THEN [s EXCEPT !.regions = Append(@, [name |-> name])]
    ELSE s

\* mutant: CREATE in place of MERGE, a new relationship for every record
MergeHasPlaceCreate(s, region, place) ==
  [s EXCEPT !.rels = Append(@, [from |-> region, to |-> place])]

\* MERGE (region)-[:HAS_PLACE]->(place) for one bound region and place
MergeHasPlace(s, region, place) ==
  IF \E i \in 1..Len(s.rels) : s.rels[i] = [from |-> region, to |-> place]
    THEN s
    ELSE [s EXCEPT !.rels = Append(@, [from |-> region, to |-> place])]

\* (region, place) pairs in position order
PairBefore(x, y) == x[1] < y[1] \/ (x[1] = y[1] /\ x[2] < y[2])

\* mutant: the MERGE of the relationship is left out
MergeHasPlaceAllNone(s, pairs) == s

\* the same for every binding of (region, place), in position order
MergeHasPlaceAll(s, pairs) ==
  LET missing == {p \in pairs : MergeHasPlace(s, p[1], p[2]) # s}
      nth(k) == CHOOSE p \in missing :
                  Cardinality({q \in missing : PairBefore(q, p)}) = k - 1
      merged(k) == MergeHasPlace(s, nth(k)[1], nth(k)[2])
  IN [s EXCEPT !.rels =
        @ \o [k \in 1..Cardinality(missing) |-> merged(k).rels[Len(merged(k).rels)]]]

\* mutant: the FOREACH body runs whether or not $prefecture is null
upsertPlaceQueryAlways(s, place) ==
  LET s1 == MergePlace(s, place.googleMapsUrl)
      bound == MatchPlaces(s1, place.googleMapsUrl)
      s2 == [s1 EXCEPT !.places =
               [i \in 1..Len(s1.places) |->
                  IF i \in bound THEN SetPlace(s1.places[i], place)
                                 ELSE s1.places[i]]]
      s3 == MergeRegion(s2, place.prefecture)
  IN MergeHasPlaceAll(s3, MatchRegions(s3, place.prefecture) \X bound)

\* tx.run(upsertPlaceQuery, place)
\* mutant: the HAS_PLACE relationships of the place are deleted before the
\* region of the record is merged
upsertPlaceQueryDetach(s, place) ==
  LET s1 == MergePlace(s, place.googleMapsUrl)
      bound == MatchPlaces(s1, place.googleMapsUrl)
      s2 == [s1 EXCEPT !.places =
               [i \in 1..Len(s1.places) |->
                  IF i \in bound THEN SetPlace(s1.places[i], place)
                                 ELSE s1.places[i]],
                       !.rels = SelectSeq(@, LAMBDA r : r.to \notin bound)]
  IN IF place.prefecture = "null" THEN s2
     ELSE LET s3 == MergeRegion(s2, place.prefecture)
          IN MergeHasPlaceAll(s3, MatchRegions(s3, place.prefecture) \X bound)

upsertPlaceQuery(s, place) ==
  LET s1 == MergePlace(s, place.googleMapsUrl)
      bound == MatchPlaces(s1, place.googleMapsUrl)
      s2 == [s1 EXCEPT !.places =
               [i \in 1..Len(s1.places) |->
                  IF i \in bound THEN SetPlace(s1.places[i], place)
                                 ELSE s1.places[i]]]
  IN IF place.prefecture = "null" THEN s2
     ELSE LET s3 == MergeRegion(s2, place.prefecture)
          IN MergeHasPlaceAll(s3, MatchRegions(s3, place.prefecture) \X bound)

\* the store after records lo..hi of a batch went through tx.run, in order
\* (the test on left has the left half evaluated before the right half)
RECURSIVE runRange(_, _, _, _)
runRange(s, batch, lo, hi) ==
  IF lo > hi THEN s
  ELSE IF lo = hi THEN upsertPlaceQuery(s, batch[lo])
  ELSE LET mid == (lo + hi) \div 2
           left == runRange(s, batch, lo, mid)
       IN IF Len(left.places) >= 0 THEN runRange(left, batch, mid + 1, hi) ELSE left

\* the store after the first n records of a batch went through tx.run
runBatch(s, batch, n) == runRange(s, batch, 1, n)

\* upsertPlaces: the store after the first k batches committed, in order
RECURSIVE upsertPlaces(_, _, _)
upsertPlaces(s, bs, k) ==
  IF k = 0 THEN s
  ELSE runBatch(upsertPlaces(s, bs, k - 1), bs[k], Len(bs[k]))

\* ------------------------------------------------------- the seeder process
VARIABLES
  store,        \* committed graph of the target database
  constraints,  \* uniqueness constraints that exist in the database
  runs,         \* seeder processes started so far
  file,         \* name of the input file the current process reads
  pc,           \* position of the current process in main()
  stmtIndex,    \* ensureConstraints: statements already run
  batchIndex,   \* upsertPlaces: index of the current batch (0-based)
  execCalls,    \* session.executeWrite calls of this run
  workRuns,     \* executions of the transaction work for the current batch
  txState,      \* graph as seen inside the open transaction
  txCount,      \* records that went through tx.run in that transaction
  txResult,     \* how the last execution of the work ended
  txBegun,      \* write transactions begun in this run
  txOpen,       \* write transactions begun and neither committed nor rolled back
  commits,      \* batch number and size of each committed transaction, in order
  arg,          \* the function applied on its own, with its arguments
  ret,          \* what that function returned
  env,          \* process.env.NEO4J_DATABASE
  homeDatabase, \* the home database of the server the driver connects to
  sessionDatabase, \* the database the session of this process is bound to
  console,      \* the lines this process has written to the console, in order
  closes,       \* the close() calls of this process that have returned, in order
  sessionOpen,  \* session opened and not yet closed
  driverOpen,   \* driver not yet closed
  error,        \* stage whose error main() rejected with, or "none"
  exitCode,     \* process.exitCode
  runStart,     \* store when the current process started
  prev          \* file, outcome and starting store of the previous process

vars == <<store, constraints, runs, file, pc, stmtIndex, batchIndex, execCalls, workRuns, txState, txCount, txResult, sessionOpen, driverOpen, error, exitCode, runStart, prev, txBegun, txOpen, commits, arg, ret, closes, env, homeDatabase, sessionDatabase, console>>

\* ensureConstraints: the two statements, in order
statements == <<"Place.googleMapsUrl", "Region.name">>

normalized == normalizedOf[file]
batches == batchesOf[file]

\* a uniqueness constraint can be created only over data that satisfies it
UniquePlaces(s) ==
  \A i, j \in 1..Len(s.places) :
    s.places[i].googleMapsUrl = s.places[j].googleMapsUrl => i = j
UniqueRegions(s) ==
  \A i, j \in 1..Len(s.regions) : s.regions[i].name = s.regions[j].name => i = j
Satisfies(s, constraint) ==
  IF constraint = "Place.googleMapsUrl" THEN UniquePlaces(s) ELSE UniqueRegions(s)

\* CREATE CONSTRAINT IF NOT EXISTS ...
CreateConstraintIfNotExists(existing, constraint) == existing \cup {constraint}
CanCreateConstraint(existing, s, constraint) ==
  constraint \in existing \/ Satisfies(s, constraint)

\* mutant: the writes of a transaction that did not commit stay
RollbackKeepsWrites(committed, working) == working

\* what a transaction that did not commit leaves in the store
Rollback(committed, working) == committed

\* how the run that just ended went
Outcome ==
  IF error # "none" THEN error
  ELSE IF execCalls = 0 THEN "nothing"
  ELSE "seeded"

NoPrev == [file |-> "none", outcome |-> "none", start |-> EmptyStore]

\* no function is applied on its own
NoCall == [fn |-> "none"]

\* console.log, console.warn and console.error: a line of the console, with
\* the numbers a template puts in it (0 where it has none)
consoleLog(text, a, b) == [stream |-> "stdout", text |-> text, a |-> a, b |-> b]
consoleWarn(text) == [stream |-> "stderr", text |-> text, a |-> 0, b |-> 0]
consoleError(text, err) == [stream |-> "stderr", text |-> text, error |-> err]

\* the error main() rejects with when a stage fails, at batch index for the
\* writes: the error of readFile or JSON.parse, or the driver's error of
\* session.run or session.executeWrite, which no caller wraps
rejection(stage, index) == IF stage = "load" THEN "Error" ELSE "Neo4jError"

\* scripts/db/neo4j.js and scripts/index.js: the configured database
database == OrElse(env, "'travel'")

\* driver.session(config): the database the session is bound to; without a
\* database member it is the home database of the server
driverSession(config) ==
  IF config.database = "undefined" THEN homeDatabase ELSE config.database

\* before the first process starts
Idle ==
  /\ store = EmptyStore
  /\ constraints = {}
  /\ runs = 0
  /\ file = "empty"
  /\ pc = "idle"
  /\ stmtIndex = 0
  /\ batchIndex = 0
  /\ execCalls = 0
  /\ workRuns = 0
  /\ txState = EmptyStore
  /\ txCount = 0
  /\ txResult = "none"
  /\ txBegun = 0
  /\ txOpen = 0
  /\ commits = <<>>
  /\ sessionOpen = FALSE
  /\ driverOpen = FALSE
  /\ error = "none"
  /\ exitCode = 0
  /\ runStart = EmptyStore
  /\ prev = NoPrev
  /\ sessionDatabase = "none"
  /\ console = <<>>
  /\ closes = <<>>

\* the configuration of the setup notes: NEO4J_DATABASE=travel in .env, on a
\* server whose home database has the default name
Init ==
  /\ Idle
  /\ arg = NoCall /\ ret = NoCall
  /\ env = "'travel'" /\ homeDatabase = "'neo4j'"

\* npm run seed: a new process, with f at DATA_PATH
StartRun(f) ==
  /\ pc \in {"idle", "exited"}
  /\ runs < MaxRuns
  /\ runs' = runs + 1
  /\ file' = f
  /\ pc' = "load"
  /\ stmtIndex' = 0
  /\ batchIndex' = 0
  /\ execCalls' = 0
  /\ workRuns' = 0
  /\ txState' = EmptyStore
  /\ txCount' = 0
  /\ txResult' = "none"
  /\ txBegun' = 0
  /\ txOpen' = 0
  /\ commits' = <<>>
  /\ sessionOpen' = FALSE
  /\ driverOpen' = TRUE
  /\ error' = "none"
  /\ exitCode' = 0
  /\ runStart' = store
  /\ prev' = IF pc = "idle" THEN NoPrev
             ELSE [file |-> file, outcome |-> Outcome, start |-> runStart]
  /\ sessionDatabase' = "none"
  /\ console' = <<>>
  /\ closes' = <<>>
  /\ UNCHANGED <<store, constraints, arg, ret, env, homeDatabase>>

\* mutant: no early return when nothing survives normalization
LoadNoEarlyReturn ==
  /\ pc = "load"
  /\ IF ~Files[file].readable \/ ~Files[file].wellFormed
       THEN /\ error' = "load"
            /\ pc' = "settle"
            /\ console' = <<consoleLog("Loading saved places data from", 0, 0)>>
            /\ UNCHANGED <<sessionOpen, sessionDatabase>>
       ELSE /\ sessionOpen' = TRUE
            /\ sessionDatabase' = driverSession([defaultAccessMode |-> "WRITE", database |-> "undefined"])
            /\ console' = <<consoleLog("Loading saved places data from", 0, 0),
                            consoleLog("Preparing constraints...", 0, 0)>>
            /\ pc' = "constraints"
            /\ UNCHANGED error
  /\ UNCHANGED <<store, constraints, runs, file, stmtIndex, batchIndex, execCalls, workRuns, txState, txCount, txResult, driverOpen, exitCode, runStart, prev, txBegun, txOpen, commits, arg, ret, closes, env, homeDatabase>>

\* main(), from readFile to driver.session
Load ==
  /\ pc = "load"
  /\ IF ~Files[file].readable \/ ~Files[file].wellFormed
       THEN /\ error' = "load"
            /\ pc' = "settle"
            /\ console' = <<consoleLog("Loading saved places data from", 0, 0)>>
            /\ UNCHANGED <<sessionOpen, sessionDatabase>>
       ELSE IF Len(normalized) = 0
         THEN /\ pc' = "settle"
              /\ console' = <<consoleLog("Loading saved places data from", 0, 0),
                              consoleWarn("No places to import. Exiting.")>>
              /\ UNCHANGED <<error, sessionOpen, sessionDatabase>>
         ELSE /\ sessionOpen' = TRUE
              /\ sessionDatabase' = driverSession([defaultAccessMode |-> "WRITE", database |-> "undefined"])
              /\ console' = <<consoleLog("Loading saved places data from", 0, 0),
                              consoleLog("Preparing constraints...", 0, 0)>>
              /\ pc' = "constraints"
              /\ UNCHANGED error
  /\ UNCHANGED <<store, constraints, runs, file, stmtIndex, batchIndex, execCalls, workRuns, txState, txCount, txResult, driverOpen, exitCode, runStart, prev, txBegun, txOpen, commits, arg, ret, closes, env, homeDatabase>>

\* ensureConstraints: one session.run(statement) that succeeds
ConstraintOk ==
  /\ pc = "constraints"
  /\ CanCreateConstraint(constraints, store, statements[stmtIndex + 1])
  /\ constraints' = CreateConstraintIfNotExists(constraints, statements[stmtIndex + 1])
  /\ stmtIndex' = stmtIndex + 1
  /\ pc' = IF stmtIndex + 1 = Len(statements) THEN "write" ELSE "constraints"
  /\ console' = IF stmtIndex + 1 = Len(statements)
                  THEN Append(console, consoleLog("Seeding places...", Len(normalized), 0))
                  ELSE console
  /\ UNCHANGED <<store, runs, file, batchIndex, execCalls, workRuns, txState, txCount, txResult, sessionOpen, driverOpen, error, exitCode, runStart, prev, txBegun, txOpen, commits, arg, ret, closes, env, homeDatabase, sessionDatabase>>

\* mutant: the error of a constraint statement is caught and the run goes on
ConstraintFailGoesOn ==
  /\ pc = "constraints"
  /\ error' = "constraint"
  /\ pc' = "write"
  /\ UNCHANGED <<store, constraints, runs, file, stmtIndex, batchIndex, execCalls, workRuns, txState, txCount, txResult, sessionOpen, driverOpen, exitCode, runStart, prev, txBegun, txOpen, commits, arg, ret, closes, env, homeDatabase, sessionDatabase, console>>

\* ensureConstraints: one session.run(statement) that throws
ConstraintFail ==
  /\ pc = "constraints"
  /\ error' = "constraint"
  /\ pc' = "closeSession"
  /\ UNCHANGED <<store, constraints, runs, file, stmtIndex, batchIndex, execCalls, workRuns, txState, txCount, txResult, sessionOpen, driverOpen, exitCode, runStart, prev, txBegun, txOpen, commits, arg, ret, closes, env, homeDatabase, sessionDatabase, console>>

\* upsertPlaces: the loop takes the next batch and calls session.executeWrite
ExecuteWrite ==
  /\ pc = "write"
  /\ batchIndex < Len(batches)
  /\ execCalls' = execCalls + 1
  /\ workRuns' = 0
  /\ pc' = "work"
  /\ UNCHANGED <<store, constraints, runs, file, stmtIndex, batchIndex, txState, txCount, txResult, sessionOpen, driverOpen, error, exitCode, runStart, prev, txBegun, txOpen, commits, arg, ret, closes, env, homeDatabase, sessionDatabase, console>>

\* upsertPlaces: the loop is over
WritesDone ==
  /\ pc = "write"
  /\ batchIndex = Len(batches)
  /\ pc' = "closeSession"
  /\ console' = Append(console, consoleLog("Seeding completed successfully.", 0, 0))
  /\ UNCHANGED <<store, constraints, runs, file, stmtIndex, batchIndex, execCalls, workRuns, txState, txCount, txResult, sessionOpen, driverOpen, error, exitCode, runStart, prev, txBegun, txOpen, commits, arg, ret, closes, env, homeDatabase, sessionDatabase>>

\* the records of the current batch at which an execution of the work may stop
StopPoints(batch) == {0, 1, Len(batch)}

\* executeWrite runs the work in a fresh transaction: n records go through
\* tx.run, then the work is over ("ok") or a tx.run or the commit throws a
\* retriable ("transient") or a non-retriable ("fatal") error
TxWork(n, result) ==
  /\ pc = "work"
  /\ n \in StopPoints(batches[batchIndex + 1])
  /\ result = "ok" => n = Len(batches[batchIndex + 1])
  /\ workRuns' = workRuns + 1
  /\ txState' = runBatch(store, batches[batchIndex + 1], n)
  /\ txCount' = n
  /\ txResult' = result
  /\ txBegun' = txBegun + 1
  /\ txOpen' = txOpen + 1
  /\ pc' = "txend"
  /\ UNCHANGED <<store, constraints, runs, file, stmtIndex, batchIndex, execCalls, sessionOpen, driverOpen, error, exitCode, runStart, prev, commits, arg, ret, closes, env, homeDatabase, sessionDatabase, console>>

\* mutant: the loop does not log the batch it has inserted
TxCommitNoLog ==
  /\ pc = "txend"
  /\ txResult = "ok"
  /\ store' = txState
  /\ batchIndex' = batchIndex + 1
  /\ txOpen' = txOpen - 1
  /\ commits' = Append(commits, [batch |-> batchIndex + 1, size |-> txCount])
  /\ pc' = "write"
  /\ UNCHANGED <<constraints, runs, file, stmtIndex, execCalls, workRuns, txState, txCount, txResult, sessionOpen, driverOpen, error, exitCode, runStart, prev, txBegun, arg, ret, closes, env, homeDatabase, sessionDatabase, console>>

\* the transaction commits; the loop logs the batch and goes on
TxCommit ==
  /\ pc = "txend"
  /\ txResult = "ok"
  /\ store' = txState
  /\ batchIndex' = batchIndex + 1
  /\ txOpen' = txOpen - 1
  /\ commits' = Append(commits, [batch |-> batchIndex + 1, size |-> txCount])
  /\ pc' = "write"
  /\ console' = Append(console, consoleLog("Inserted batch", batchIndex + 1, Len(batches)))
  /\ UNCHANGED <<constraints, runs, file, stmtIndex, execCalls, workRuns, txState, txCount, txResult, sessionOpen, driverOpen, error, exitCode, runStart, prev, txBegun, arg, ret, closes, env, homeDatabase, sessionDatabase>>

\* mutant: a failed batch is skipped and the loop goes on with the next one
TxRollbackGoesOn ==
  /\ pc = "txend"
  /\ txResult # "ok"
  /\ store' = Rollback(store, txState)
  /\ IF txResult = "transient" /\ workRuns <= MaxRetry
       THEN /\ pc' = "work"
            /\ UNCHANGED <<error, batchIndex>>
       ELSE /\ error' = "write"
            /\ batchIndex' = batchIndex + 1
            /\ pc' = "write"
  /\ txOpen' = txOpen - 1
  /\ UNCHANGED <<constraints, runs, file, stmtIndex, execCalls, workRuns, txState, txCount, txResult, sessionOpen, driverOpen, exitCode, runStart, prev, txBegun, commits, arg, ret, closes, env, homeDatabase, sessionDatabase, console>>

\* the transaction rolls back; the driver runs the work again after a
\* retriable error while its retry time lasts, else executeWrite rejects
TxRollback ==
  /\ pc = "txend"
  /\ txResult # "ok"
  /\ store' = Rollback(store, txState)
  /\ IF txResult = "transient" /\ workRuns <= MaxRetry
       THEN /\ pc' = "work"
            /\ UNCHANGED error
       ELSE /\ error' = "write"
            /\ pc' = "closeSession"
  /\ txOpen' = txOpen - 1
  /\ UNCHANGED <<constraints, runs, file, stmtIndex, batchIndex, execCalls, workRuns, txState, txCount, txResult, sessionOpen, driverOpen, exitCode, runStart, prev, txBegun, commits, arg, ret, closes, env, homeDatabase, sessionDatabase, console>>

\* mutant: the finally block closes the driver and leaves the session
CloseDriverOnly ==
  /\ pc = "closeSession"
  /\ driverOpen' = FALSE
  /\ closes' = Append(closes, "driver")
  /\ pc' = "settle"
  /\ UNCHANGED <<store, constraints, runs, file, stmtIndex, batchIndex, execCalls, workRuns, txState, txCount, txResult, sessionOpen, error, exitCode, runStart, prev, txBegun, txOpen, commits, arg, ret, env, homeDatabase, sessionDatabase, console>>

\* finally: await session.close()
CloseSession ==
  /\ pc = "closeSession"
  /\ sessionOpen' = FALSE
  /\ closes' = Append(closes, "session")
  /\ pc' = "closeDriver"
  /\ UNCHANGED <<store, constraints, runs, file, stmtIndex, batchIndex, execCalls, workRuns, txState, txCount, txResult, driverOpen, error, exitCode, runStart, prev, txBegun, txOpen, commits, arg, ret, env, homeDatabase, sessionDatabase, console>>

\* finally: await driver.close()
CloseDriver ==
  /\ pc = "closeDriver"
  /\ driverOpen' = FALSE
  /\ closes' = Append(closes, "driver")
  /\ pc' = "settle"
  /\ UNCHANGED <<store, constraints, runs, file, stmtIndex, batchIndex, execCalls, workRuns, txState, txCount, txResult, sessionOpen, error, exitCode, runStart, prev, txBegun, txOpen, commits, arg, ret, env, homeDatabase, sessionDatabase, console>>

\* mutant: the catch handler logs the error and leaves process.exitCode alone
SettleLogsOnly ==
  /\ pc = "settle"
  /\ pc' = "exited"
  /\ console' = IF error # "none"
                  THEN Append(console, consoleError("Seeding failed:", rejection(error, batchIndex + 1)))
                  ELSE console
  /\ UNCHANGED <<store, constraints, runs, file, stmtIndex, batchIndex, execCalls, workRuns, txState, txCount, txResult, sessionOpen, driverOpen, error, exitCode, runStart, prev, txBegun, txOpen, commits, arg, ret, closes, env, homeDatabase, sessionDatabase>>

\* main() settles; main().catch sets process.exitCode on a rejection
Settle ==
  /\ pc = "settle"
  /\ exitCode' = IF error # "none" THEN 1 ELSE exitCode
  /\ console' = IF error # "none"
                  THEN Append(console, consoleError("Seeding failed:", rejection(error, batchIndex + 1)))
                  ELSE console
  /\ pc' = "exited"
  /\ UNCHANGED <<store, constraints, runs, file, stmtIndex, batchIndex, execCalls, workRuns, txState, txCount, txResult, sessionOpen, driverOpen, error, runStart, prev, txBegun, txOpen, commits, arg, ret, closes, env, homeDatabase, sessionDatabase>>

Next ==
  \/ \E f \in FileNames : StartRun(f)
  \/ Load
  \/ ConstraintOk
  \/ ConstraintFail
  \/ ExecuteWrite
  \/ WritesDone
  \/ \E n \in 0..CHUNK_SIZE : \E result \in {"ok", "transient", "fatal"} : TxWork(n, result)
  \/ TxCommit
  \/ TxRollback
  \/ CloseSession
  \/ CloseDriver
  \/ Settle

Spec == Init /\ [][Next]_vars

\* --------------------------------------------------- database configurations
\* the values of NEO4J_DATABASE and the home databases the seeder is run with
EnvValues == {"undefined", "''", "'travel'", "'staging'"}
HomeDatabases == {"'neo4j'", "'travel'", "'staging'"}
\* the input files of these runs
DatabaseFiles == {"unreadable", "allRejected", "tokyo", "dupInBatch"}

InitDatabase ==
  /\ Idle
  /\ arg = NoCall /\ ret = NoCall
  /\ env \in EnvValues /\ homeDatabase \in HomeDatabases

NextDatabase ==
  \/ \E f \in DatabaseFiles : StartRun(f)
  \/ Load
  \/ ConstraintOk
  \/ ConstraintFail
  \/ ExecuteWrite
  \/ WritesDone
  \/ \E n \in 0..CHUNK_SIZE : \E result \in {"ok", "transient", "fatal"} : TxWork(n, result)
  \/ TxCommit
  \/ TxRollback
  \/ CloseSession
  \/ CloseDriver
  \/ Settle

SpecDatabase == InitDatabase /\ [][NextDatabase]_vars

\* ------------------------------------------------- functions on their own
\* the variables of the seeder process
procVars == <<store, constraints, runs, file, pc, stmtIndex, batchIndex, execCalls, workRuns, txState, txCount, txResult, sessionOpen, driverOpen, error, exitCode, runStart, prev, txBegun, txOpen, commits, closes, env, homeDatabase, sessionDatabase, console>>

\* the lengths and group sizes chunk is applied to
ChunkInputs ==
  ((0..MaxChunkLen) \X (1..MaxChunkSize))
    \cup ({0, CHUNK_SIZE - 1, CHUNK_SIZE, CHUNK_SIZE + 1, 2 * CHUNK_SIZE + 50} \X {CHUNK_SIZE})

\* chunk(collection, size) is called with records 1..n
InitChunk ==
  /\ Idle
  /\ env = "'travel'" /\ homeDatabase = "'neo4j'"
  /\ \E in \in ChunkInputs :
       arg = [fn |-> "chunk", collection |-> [i \in 1..in[1] |-> i], size |-> in[2]]
  /\ ret = NoCall

ApplyChunk ==
  /\ arg.fn = "chunk"
  /\ ret = NoCall
  /\ ret' = [fn |-> "chunk", value |-> chunk(arg.collection, arg.size)]
  /\ UNCHANGED <<procVars, arg>>

SpecChunk == InitChunk /\ [][ApplyChunk]_vars

\* a raw feature with a null object at one level
Shapes == {"feature", "nullFeature", "nullGeometry", "nullProperties", "nullLocation"}
Shape(shape, feature) ==
  CASE shape = "nullFeature" -> [feature EXCEPT !.isNull = TRUE]
    [] shape = "nullGeometry" -> [feature EXCEPT !.geometry.isNull = TRUE]
    [] shape = "nullProperties" -> [feature EXCEPT !.properties.isNull = TRUE]
    [] shape = "nullLocation" -> [feature EXCEPT !.properties.location.isNull = TRUE]
    [] OTHER -> feature

\* sequences over S of length up to n
SeqsUpTo(S, n) == UNION {[1..k -> S] : k \in 0..n}

\* the values of a JSON member: missing, null, or a literal
NameValues == {"undefined", "null", "''", "'Senso-ji'"}
UrlValues == {"undefined", "null", "''", "'maps/1'"}
PassValues == {"undefined", "null", "''", "false", "0", "true", "'star'"}
CoordinateItems == NumberLits \cup {"'35.68'", "null"}
CoordinateValues ==
  {Arr(items) : items \in SeqsUpTo(CoordinateItems, MaxCoordinates)}
    \cup {NotArr(lit) : lit \in {"undefined", "null", "'ab'", "0"}}

\* raw features that vary the name and the key at every shape
AcceptanceFeatures ==
  {Shape(shape, RawFeature(Arr(<<"139.69", "35.68">>), name, "'2-3-1 Asakusa'",
                           url, "'Tokyo'", "'place'", "undefined", "'star'",
                           "true", "undefined", "undefined", "undefined")) :
     shape \in Shapes, name \in NameValues, url \in UrlValues}

\* raw features that vary geometry.coordinates
CoordinateFeatures ==
  {Shape(shape, RawFeature(coords, "'Senso-ji'", "undefined", url, "undefined",
                           "undefined", "undefined", "undefined", "undefined",
                           "undefined", "undefined", "undefined")) :
     shape \in {"feature", "nullGeometry"}, coords \in CoordinateValues,
     url \in {"'maps/1'", "''"}}

\* raw features that vary the five members passed through
PassFeatures ==
  {RawFeature(NotArr("undefined"), "'Senso-ji'", "undefined", "'maps/1'",
              "undefined", "undefined", "undefined", membs[1], membs[2],
              membs[3], membs[4], membs[5]) :
     membs \in [1..5 -> PassValues]}

\* raw features that vary the notes and the address
NotesValues == {"undefined", "null", "''", "'go early'"}
AddressValues == {"undefined", "null", "''", "'2-3-1 Asakusa'"}
DescriptionFeatures ==
  {Shape(shape, RawFeature(NotArr("undefined"), "'Senso-ji'", address, "'maps/1'",
                           "undefined", "undefined", notes, "undefined",
                           "undefined", "undefined", "undefined", "undefined")) :
     shape \in {"feature", "nullGeometry"}, notes \in NotesValues,
     address \in AddressValues}

RawFeatures ==
  AcceptanceFeatures \cup CoordinateFeatures \cup PassFeatures \cup DescriptionFeatures

\* the features the map/filter of main is applied to
ListFeatures ==
  {Features[n] : n \in {"fA", "fB", "fD", "fE", "fF"}}
    \cup {Shape(shape, Features["fA"]) : shape \in {"nullFeature", "nullLocation"}}

\* normalizePlace(feature) is called on its own, or main maps and filters
\* payload.features
InitNormalizer ==
  /\ Idle
  /\ env = "'travel'" /\ homeDatabase = "'neo4j'"
  /\ \/ \E feature \in RawFeatures : arg = [fn |-> "normalizePlace", feature |-> feature]
     \/ \E features \in SeqsUpTo(ListFeatures, MaxFeatures) :
          arg = [fn |-> "mapFilter", features |-> features]
  /\ ret = NoCall

ApplyNormalizePlace ==
  /\ arg.fn = "normalizePlace"
  /\ ret = NoCall
  /\ ret' = [fn |-> "normalizePlace", value |-> normalizePlace(arg.feature)]
  /\ UNCHANGED <<procVars, arg>>

ApplyMapFilter ==
  /\ arg.fn = "mapFilter"
  /\ ret = NoCall
  /\ ret' = [fn |-> "mapFilter", raised |-> mapRaises(arg.features),
              value |-> mapFilterFeatures(arg.features)]
  /\ UNCHANGED <<procVars, arg>>

NextNormalizer == ApplyNormalizePlace \/ ApplyMapFilter

SpecNormalizer == InitNormalizer /\ [][NextNormalizer]_vars

\* ------------------------------------------------------------- properties
\* the Place nodes of s that carry the identity key of record r
NodesOf(s, r) == MatchPlaces(s, r.googleMapsUrl)
\* the positions of the Region nodes linked to Place node p
RegionsOfPlace(s, p) == {s.rels[i].from : i \in {j \in 1..Len(s.rels) : s.rels[j].to = p}}
\* record i is the last one of the sequence with its identity key
LastOfKey(records, i) ==
  \A j \in (i + 1)..Len(records) : records[j].googleMapsUrl # records[i].googleMapsUrl
\* the run that just exited wrote every batch
Seeded == pc = "exited" /\ Outcome = "seeded"
\* the batch of the open or last transaction
CurrentBatch == batches[batchIndex + 1]

\* C1: a successful run on the input of the preceding successful run leaves
\* the store (nodes, attributes, relationships) and the constraints as that
\* run left them, and a constraint statement whose constraint already exists
\* can succeed.
C1_Idempotent ==
  /\ (Seeded /\ prev.outcome = "seeded" /\ prev.file = file)
       => (store = runStart /\ constraints = {statements[1], statements[2]})
  /\ (pc = "constraints" /\ statements[stmtIndex + 1] \in constraints)
       => ENABLED ConstraintOk

C1_Witness ==
  /\ Seeded /\ prev.outcome = "seeded" /\ prev.file = file
  /\ Len(store.places) = 2 /\ Len(store.rels) >= 2

\* C2: no two Place nodes share a googleMapsUrl, no two Region nodes share a
\* name, and no two HAS_PLACE relationships join the same Region and Place.
C2_NoDuplicates ==
  /\ UniquePlaces(store)
  /\ UniqueRegions(store)
  /\ \A i, j \in 1..Len(store.rels) : store.rels[i] = store.rels[j] => i = j

C2_Witness ==
  /\ Seeded /\ file = "dupInBatch" /\ prev.file = "twoBatches"
  /\ Len(store.places) = 2 /\ Len(store.regions) = 2 /\ Len(store.rels) = 3

\* C3: once a transaction of batch k has failed, be it retried or final, the
\* store is the store the run started from with batches 1..k-1 applied in
\* full and nothing of batch k.
C3_BatchAtomic ==
  (error = "write" \/ (pc = "work" /\ workRuns >= 1))
    => store = upsertPlaces(runStart, batches, batchIndex)

C3_Witness ==
  /\ error = "write" /\ batchIndex >= 1 /\ txCount >= 1
  /\ txState # store /\ store # runStart

\* C4 (as claimed): once a batch's write has failed, the work of that batch
\* has been executed exactly once.
C4_WorkAttemptedOnce ==
  error = "write" => workRuns = 1

\* C4 (amended): once a batch's write has failed, upsertPlaces has called
\* executeWrite exactly once for that batch and for each batch before it and
\* for no later batch, the work of the failed batch ran at least once and at
\* most 1 + MaxRetry times, no transaction is open or started any more, and
\* the process exits with code 1.
C4_FailFast ==
  error = "write" =>
    /\ execCalls = batchIndex + 1
    /\ batchIndex < Len(batches)
    /\ workRuns \in 1..(MaxRetry + 1)
    /\ pc \in {"closeSession", "closeDriver", "settle", "exited"}
    /\ pc = "exited" => exitCode = 1

C4_Witness ==
  /\ error = "write" /\ pc = "exited" /\ exitCode = 1
  /\ batchIndex = 1 /\ Len(batches) = 3 /\ workRuns = 2

\* C5: inside a transaction the node of the record that went through tx.run
\* last equals that record in all twelve mutable attributes, and after the
\* commit so does the node of every record that is the last of its key in
\* the batch, whatever the node held before.
C5_WholeRecordOverwrite ==
  /\ (pc = "txend" /\ txCount >= 1) =>
       \A n \in NodesOf(txState, CurrentBatch[txCount]) :
         \A a \in MutableAttributes : txState.places[n][a] = CurrentBatch[txCount][a]
  /\ (pc = "write" /\ batchIndex >= 1) =>
       \A i \in 1..Len(batches[batchIndex]) :
         LastOfKey(batches[batchIndex], i) =>
           /\ NodesOf(store, batches[batchIndex][i]) # {}
           /\ \A n \in NodesOf(store, batches[batchIndex][i]) :
                \A a \in MutableAttributes :
                  store.places[n][a] = batches[batchIndex][i][a]

\* a node that had a rating and a visited date lost both to a record without
C5_Witness ==
  /\ pc = "write" /\ batchIndex >= 1
  /\ \E n \in 1..Len(runStart.places) :
       /\ runStart.places[n].tabelogRating # "null"
       /\ runStart.places[n].visitedDate # "null"
       /\ store.places[n].tabelogRating = "null"
       /\ store.places[n].visitedDate = "null"

\* C6: for the record that went through tx.run last, with the graph before it
\* and the graph after it: if its region name is present, a Region node of
\* that name exists and is linked to the record's Place node; if it is
\* absent, the Region nodes and the relationships are unchanged.
C6_RegionLinkage ==
  (pc = "txend" /\ txCount >= 1) =>
    LET r == CurrentBatch[txCount]
        before == runBatch(store, CurrentBatch, txCount - 1)
    IN IF r.prefecture # "null"
         THEN /\ MatchRegions(txState, r.prefecture) # {}
              /\ \A n \in NodesOf(txState, r) :
                   MatchRegions(txState, r.prefecture) \subseteq RegionsOfPlace(txState, n)
         ELSE /\ txState.regions = before.regions
              /\ txState.rels = before.rels

C6_Witness ==
  /\ pc = "txend" /\ txCount >= 1 /\ txResult = "ok"
  /\ CurrentBatch[txCount].prefecture = "null"
  /\ NodesOf(txState, CurrentBatch[txCount]) # {}
  /\ Len(txState.regions) = 0

\* C7: after a successful run, every record that is the last of its identity
\* key in the accepted input has exactly one Place node, and that node equals
\* the record in the identity key and all twelve attributes.
C7_LastDuplicateWins ==
  Seeded =>
    \A i \in 1..Len(normalized) :
      LastOfKey(normalized, i) =>
        /\ Cardinality(NodesOf(store, normalized[i])) = 1
        /\ \A n \in NodesOf(store, normalized[i]) : store.places[n] = normalized[i]

\* a successful run whose input has a key in its first and in its last batch
C7_Witness ==
  /\ Seeded /\ Len(batches) = 3
  /\ \E i \in 1..CHUNK_SIZE : \E j \in (2 * CHUNK_SIZE + 1)..Len(normalized) :
       /\ LastOfKey(normalized, j)
       /\ normalized[i].googleMapsUrl = normalized[j].googleMapsUrl
       /\ normalized[i] # normalized[j]

\* C8: after a successful run, every record without a region name that is the
\* last of its key has a Place node, and no HAS_PLACE relationship points to
\* that node.
C8_NoRegionNoRelationship ==
  Seeded =>
    \A i \in 1..Len(normalized) :
      (LastOfKey(normalized, i) /\ normalized[i].prefecture = "null") =>
        /\ NodesOf(store, normalized[i]) # {}
        /\ \A n \in NodesOf(store, normalized[i]) : RegionsOfPlace(store, n) = {}

\* C9: every Place node is linked to at most one Region.
C9_AtMostOneRegion ==
  \A p \in 1..Len(store.places) : Cardinality(RegionsOfPlace(store, p)) <= 1

\* C10: a successful run that follows a run of the same input that failed in
\* a batch write ends in the store that one successful run on that input
\* reaches from the store the failed run started from.
C10_RerunRecovers ==
  (Seeded /\ prev.outcome = "write" /\ prev.file = file)
    => store = upsertPlaces(prev.start, batches, Len(batches))

\* the failed run had committed a batch, and started from a store with nodes
C10_Witness ==
  /\ Seeded /\ prev.outcome = "write" /\ prev.file = file
  /\ runStart # prev.start
  /\ Len(prev.start.places) >= 1
  /\ store # runStart

\* ceil(n / b)
CeilDiv(n, b) == (n + b - 1) \div b
\* the size of group k when n records are split into groups of b
GroupSize(n, b, k) == IF k * b <= n THEN b ELSE n - (k - 1) * b

\* C11 (as claimed): a successful run has begun exactly ceil(N/100) write
\* transactions.
C11_ExactlyCeilTransactions ==
  Seeded => txBegun = CeilDiv(Len(normalized), CHUNK_SIZE)

\* C11 (amended): the committed transactions are those of batches 1, 2, ...
\* in this order, of sizes 100, ..., 100 and the remainder; a successful run
\* has called executeWrite and committed exactly ceil(N/100) times, with one
\* more transaction begun for each one rolled back and re-executed; a batch
\* is submitted only when every batch before it has committed; a transaction
\* begins only when none is open, so at most one is open.
C11_SerialOrdered ==
  /\ txOpen \in {0, 1}
  /\ pc = "work" => txOpen = 0
  /\ commits = [k \in 1..batchIndex |->
                 [batch |-> k, size |-> GroupSize(Len(normalized), CHUNK_SIZE, k)]]
  /\ execCalls \in {Len(commits), Len(commits) + 1}
  /\ txBegun >= Len(commits)
  /\ Seeded => /\ Len(commits) = CeilDiv(Len(normalized), CHUNK_SIZE)
               /\ execCalls = Len(commits)

\* 250 accepted records written as 100, 100, 50, with a transaction retried
C11_Witness ==
  /\ Seeded /\ Len(normalized) = 250
  /\ commits = <<[batch |-> 1, size |-> 100], [batch |-> 2, size |-> 100], [batch |-> 3, size |-> 50]>>
  /\ txBegun > 3

\* C12: a write transaction is submitted only after both constraint
\* statements of this run succeeded, the Place one before the Region one;
\* after a load failure or a constraint failure no executeWrite was called,
\* no transaction was begun and the store is the one the run started from.
C12_AbortBeforeWrite ==
  /\ (execCalls >= 1 \/ txBegun >= 1) =>
       (stmtIndex = Len(statements) /\ constraints = {statements[1], statements[2]})
  /\ stmtIndex >= 1 => statements[1] \in constraints
  /\ stmtIndex = 2 => statements[2] \in constraints
  /\ error \in {"load", "constraint"} =>
       (execCalls = 0 /\ txBegun = 0 /\ commits = <<>> /\ store = runStart)

\* the second constraint statement failed in a run over a store with nodes
C12_Witness ==
  /\ pc = "exited" /\ error = "constraint" /\ stmtIndex = 1
  /\ Len(normalized) >= 1 /\ Len(store.places) >= 1 /\ exitCode = 1

\* the file is read and parsed, and no feature of it has both a truthy name
\* and a truthy google_maps_url
ZeroSurvive(f) ==
  /\ Files[f].readable /\ Files[f].wellFormed
  /\ \/ ~Files[f].featuresIsArray
     \/ \A i \in 1..Len(Files[f].features) :
          LET properties == Features[Files[f].features[i]].properties
          IN ~Truthy(properties.location.name) \/ ~Truthy(properties.google_maps_url)

\* C13: when zero records survive normalization, the run past its load step
\* has no error, has opened no session, has run no constraint statement and
\* begun no write transaction, has left constraints and store alone, is
\* settling or has exited, and exits with code 0.
C13_NothingToDo ==
  (runs >= 1 /\ pc # "load" /\ ZeroSurvive(file)) =>
    /\ error = "none"
    /\ ~sessionOpen
    /\ stmtIndex = 0 /\ execCalls = 0 /\ txBegun = 0 /\ commits = <<>>
    /\ store = runStart
    /\ pc \in {"settle", "exited"}
    /\ exitCode = 0

\* every feature of the file is rejected, in a run over a store with nodes
C13_Witness ==
  /\ pc = "exited" /\ file = "allRejected" /\ exitCode = 0
  /\ Len(store.places) >= 1 /\ prev.outcome = "seeded"

\* C14: a process that has exited has exit code 1 if the file could not be
\* read or parsed, or a session was opened and not both constraint
\* statements succeeded, or both succeeded and not every batch committed;
\* in every other case, nothing-to-do included, it has exit code 0.
C14_ExitStatus ==
  pc = "exited" =>
    LET loaderFailed == ~Files[file].readable \/ ~Files[file].wellFormed
        constraintFailed ==
          ~loaderFailed /\ ~ZeroSurvive(file) /\ stmtIndex < Len(statements)
        batchFailed ==
          stmtIndex = Len(statements) /\ Len(commits) < CeilDiv(Len(normalized), CHUNK_SIZE)
    IN exitCode = IF loaderFailed \/ constraintFailed \/ batchFailed THEN 1 ELSE 0

\* a run that exits with 1 for a failed third batch after a run that exited
\* with 0 for having nothing to do
C14_Witness ==
  /\ pc = "exited" /\ exitCode = 1
  /\ Len(commits) = 2 /\ Len(batches) = 3
  /\ prev.outcome = "nothing"

\* C15: chunk of N records by B has ceil(N/B) groups, each but the last of
\* size B, the last of a size in 1..B; the groups laid end to end are the
\* collection; no record gives no group.
C15_Chunk ==
  ret.fn = "chunk" =>
    LET N == Len(arg.collection)
        B == arg.size
        groups == ret.value
    IN /\ Len(groups) = CeilDiv(N, B)
       /\ \A k \in 1..(Len(groups) - 1) : Len(groups[k]) = B
       /\ Len(groups) > 0 => Len(groups[Len(groups)]) \in 1..B
       /\ Len(groups) > 0 => (Len(groups) - 1) * B + Len(groups[Len(groups)]) = N
       /\ \A k \in 1..Len(groups) : \A j \in 1..Len(groups[k]) :
            groups[k][j] = arg.collection[(k - 1) * B + j]
       /\ N = 0 => groups = <<>>

\* 250 records by 100: groups of 100, 100 and 50
C15_Witness ==
  /\ ret.fn = "chunk" /\ Len(arg.collection) = 250 /\ arg.size = CHUNK_SIZE
  /\ Len(ret.value) = 3 /\ Len(ret.value[3]) = 50 /\ ret.value[3][50] = 250

\* the members of a raw feature as the document has them: a member below a
\* null object is missing
RawName(feature) ==
  IF feature.isNull \/ feature.properties.isNull \/ feature.properties.location.isNull
    THEN "undefined" ELSE feature.properties.location.name
RawUrl(feature) ==
  IF feature.isNull \/ feature.properties.isNull
    THEN "undefined" ELSE feature.properties.google_maps_url
RawCoordinates(feature) ==
  IF feature.isNull \/ feature.geometry.isNull
    THEN NotArr("undefined") ELSE feature.geometry.coordinates
MissingOrEmpty(v) == v \in {"undefined", "null", "''"}
Excluded(feature) == MissingOrEmpty(RawName(feature)) \/ MissingOrEmpty(RawUrl(feature))

\* C16: a raw record is excluded exactly when its display name or its
\* identity key is missing or empty; the accepted records keep their input
\* order, and excluded plus accepted is the number of input records.
C16_Acceptance ==
  /\ ret.fn = "normalizePlace" => (IsRejected(ret.value) <=> Excluded(arg.feature))
  /\ ret.fn = "mapFilter" =>
       LET features == arg.features
           accepted == {i \in 1..Len(features) : ~Excluded(features[i])}
           excluded == {i \in 1..Len(features) : Excluded(features[i])}
       IN /\ Len(ret.value) = Cardinality(accepted)
          /\ Cardinality(excluded) + Len(ret.value) = Len(features)
          /\ \A i \in accepted :
               LET k == Cardinality({j \in accepted : j <= i})
               IN /\ ret.value[k].name = RawName(features[i])
                  /\ ret.value[k].googleMapsUrl = RawUrl(features[i])

\* three records, the second without a name: the first and the third are
\* accepted in that order
C16_Witness ==
  /\ ret.fn = "mapFilter"
  /\ Len(arg.features) = 3
  /\ ~Excluded(arg.features[1]) /\ Excluded(arg.features[2]) /\ ~Excluded(arg.features[3])
  /\ RawUrl(arg.features[1]) = "'maps/2'" /\ RawUrl(arg.features[3]) = "'maps/1'"
  /\ RawName(arg.features[2]) = "''"
  /\ Len(ret.value) = 2 /\ ret.value[1].googleMapsUrl = "'maps/2'"

\* a coordinates value that is exactly two finite numbers
FiniteNumbers == {"0", "35.68", "139.69"}
ExactPair(c) ==
  c.isArray /\ Len(c.items) = 2 /\ c.items[1] \in FiniteNumbers /\ c.items[2] \in FiniteNumbers

\* C17: an accepted record whose geometry.coordinates is exactly two finite
\* numbers has the first as longitude and the second as latitude; in every
\* other case both are absent, and never exactly one of them.
C17_CoordinatePair ==
  (ret.fn = "normalizePlace" /\ ~IsRejected(ret.value)) =>
    LET c == RawCoordinates(arg.feature)
    IN /\ ExactPair(c) => /\ ret.value.longitude = c.items[1]
                          /\ ret.value.latitude = c.items[2]
       /\ ~ExactPair(c) => /\ ret.value.longitude = "null"
                           /\ ret.value.latitude = "null"
       /\ (ret.value.longitude = "null") <=> (ret.value.latitude = "null")

\* [139.69, Infinity] is two numbers, one not finite: both are absent
C17_Witness ==
  /\ ret.fn = "normalizePlace" /\ ~IsRejected(ret.value)
  /\ RawCoordinates(arg.feature) = Arr(<<"139.69", "Infinity">>)
  /\ ret.value.longitude = "null" /\ ret.value.latitude = "null"

\* a member that is passed through: absent when missing or null, else itself
Verbatim(v) == IF v \in {"undefined", "null"} THEN "null" ELSE v

\* C19: the saved-list tag, visited flag, visited date, rating and saved
\* timestamp of an accepted record are the raw members when present and
\* absent otherwise; a visited flag of false stays false.
C19_PassThrough ==
  (ret.fn = "normalizePlace" /\ ~IsRejected(ret.value)) =>
    LET properties == arg.feature.properties
    IN /\ ret.value.savedList = Verbatim(properties.saved_list)
       /\ ret.value.visited = Verbatim(properties.visited)
       /\ ret.value.visitedDate = Verbatim(properties.visited_date)
       /\ ret.value.tabelogRating = Verbatim(properties.tabelog_rating)
       /\ ret.value.dateSaved = Verbatim(properties.date)
       /\ properties.visited = "false" => ret.value.visited = "false"

\* visited false, rating 0 and an empty saved-list tag are kept as they are
C19_Witness ==
  /\ ret.fn = "normalizePlace" /\ ~IsRejected(ret.value)
  /\ arg.feature.properties.visited = "false" /\ ret.value.visited = "false"
  /\ arg.feature.properties.tabelog_rating = "0" /\ ret.value.tabelogRating = "0"
  /\ arg.feature.properties.saved_list = "''" /\ ret.value.savedList = "''"
  /\ arg.feature.properties.date = "undefined" /\ ret.value.dateSaved = "null"

\* geometry.coordinates is there and is not two finite numbers
MalformedCoordinates(feature) ==
  LET c == RawCoordinates(feature)
  IN ~(~c.isArray /\ c.lit \in {"undefined", "null"}) /\ ~ExactPair(c)

\* the raw features of an input file
rawFeaturesOf == [f \in FileNames |-> [i \in 1..Len(featuresOf(f)) |-> Features[featuresOf(f)[i]]]]

\* the positions in normalized of the records with malformed coordinates
\* that have a name and a key
malformedOf ==
  [f \in FileNames |->
     LET raw == rawFeaturesOf[f]
         accepted == {i \in 1..Len(raw) : ~Excluded(raw[i])}
     IN {Cardinality({j \in accepted : j <= i}) :
           i \in {j \in accepted : MalformedCoordinates(raw[j])}}]

\* the records with malformed coordinates are not among the normalized ones
droppedOf ==
  [f \in FileNames |->
     LET raw == rawFeaturesOf[f]
     IN Len(normalizedOf[f]) =
          Cardinality({i \in 1..Len(raw) : ~Excluded(raw[i]) /\ ~MalformedCoordinates(raw[i])})]

\* the records with malformed coordinates that have a name and a key are
\* among the normalized ones, after the records before them, without
\* latitude and longitude
keptOf ==
  [f \in FileNames |->
     LET raw == rawFeaturesOf[f]
     IN /\ Len(normalizedOf[f]) = Cardinality({i \in 1..Len(raw) : ~Excluded(raw[i])})
        /\ \A k \in malformedOf[f] :
             /\ normalizedOf[f][k].latitude = "null"
             /\ normalizedOf[f][k].longitude = "null"]

C20_TargetDatabase ==
  (sessionOpen \/ stmtIndex >= 1 \/ txBegun >= 1) => sessionDatabase = database

\* what the console of the process shows
HasLine(text) == \E i \in 1..Len(console) : console[i].text = text
LinesOf(text) == {i \in 1..Len(console) : console[i].text = text}
LastLine == console[Len(console)]
Stages == {"load", "constraint", "write"}

\* C21 as stated: the error report of a failed constraint or write stage
\* tells the failing stage and, for a write, the failing batch: no other
\* stage or batch gives the same report.
C21_ReportIdentifies ==
  (pc = "exited" /\ error \in {"constraint", "write"}) =>
    \A stage \in Stages : \A index \in 1..(Len(batches) + 1) :
      LastLine = consoleError("Seeding failed:", rejection(stage, index)) =>
        /\ stage = error
        /\ error = "write" => index = batchIndex + 1

\* C21: a failure of the constraint stage or of a batch write ends the run
\* with exit code 1 and one report, the last line of the console, that is
\* "Seeding failed:" with the driver's error; a run without failure has no
\* such line. The progress lines before the report tell the stage and the
\* batch: "Seeding places..." is there exactly when the constraints succeeded,
\* and the "Inserted batch" lines are those of the committed batches 1..k, the
\* failing batch being k + 1.
C21_Propagated ==
  /\ (pc = "exited" /\ error \in {"constraint", "write"}) =>
       /\ exitCode = 1
       /\ LastLine = consoleError("Seeding failed:", "Neo4jError")
       /\ Cardinality(LinesOf("Seeding failed:")) = 1
       /\ ~HasLine("Seeding completed successfully.")
       /\ (error = "write") <=> HasLine("Seeding places...")
       /\ Cardinality(LinesOf("Inserted batch")) = Len(commits)
       /\ \A k \in 1..Len(commits) :
            \E i \in LinesOf("Inserted batch") :
              console[i].a = commits[k].batch /\ console[i].b = Len(batches)
       /\ error = "constraint" => Len(commits) = 0
       /\ error = "write" => Len(commits) + 1 = batchIndex + 1 /\ batchIndex < Len(batches)
  /\ (pc = "exited" /\ error = "none") => ~HasLine("Seeding failed:")

\* the third of three batches fails: "Inserted batch 2/3", then the report
C21_Witness ==
  /\ pc = "exited" /\ error = "write" /\ Len(batches) = 3 /\ Len(commits) = 2
  /\ console[Len(console) - 1] = consoleLog("Inserted batch", 2, 3)
  /\ LastLine = consoleError("Seeding failed:", "Neo4jError")

\* a notes or address member that has text
Usable(v) == v \notin {"undefined", "null", "''"}

\* C22: the description of an accepted record is the notes when they are
\* present and non-empty, otherwise the address when there is a usable one,
\* otherwise absent; it is never the empty string.
C22_DescriptionFallback ==
  (ret.fn = "normalizePlace" /\ ~IsRejected(ret.value)) =>
    LET notes == arg.feature.properties.notes
        address == arg.feature.properties.location.address
    IN /\ Usable(notes) => ret.value.description = notes
       /\ (~Usable(notes) /\ Usable(address)) => ret.value.description = address
       /\ (~Usable(notes) /\ ~Usable(address)) => ret.value.description = "null"
       /\ ret.value.description # "''"

\* the identity keys of the accepted records of an input file
acceptedKeysOf ==
  [f \in FileNames |-> {normalizedOf[f][k].googleMapsUrl : k \in 1..Len(normalizedOf[f])}]
\* the relationships of s that point to Place node p
RelsTo(s, p) == {s.rels[i] : i \in {j \in 1..Len(s.rels) : s.rels[j].to = p}}

\* C23: whatever a run does, the Place nodes, Region nodes and HAS_PLACE
\* relationships the store had when the run started are still there, and a
\* Place node whose identity key is not among the accepted records of the run
\* has the attributes and the relationships it had.
C23_NoDeletionFrame ==
  /\ Len(store.places) >= Len(runStart.places)
  /\ \A i \in 1..Len(runStart.places) :
       store.places[i].googleMapsUrl = runStart.places[i].googleMapsUrl
  /\ Len(store.regions) >= Len(runStart.regions)
  /\ SubSeq(store.regions, 1, Len(runStart.regions)) = runStart.regions
  /\ Len(store.rels) >= Len(runStart.rels)
  /\ SubSeq(store.rels, 1, Len(runStart.rels)) = runStart.rels
  /\ \A i \in 1..Len(runStart.places) :
       runStart.places[i].googleMapsUrl \notin acceptedKeysOf[file] =>
         /\ store.places[i] = runStart.places[i]
         /\ RelsTo(store, i) = RelsTo(runStart, i)

\* a run that rewrites 'maps/1' in a store that also has 'maps/2'
C23_Witness ==
  /\ pc = "exited" /\ execCalls >= 1 /\ store # runStart
  /\ acceptedKeysOf[file] = {"'maps/1'"}
  /\ \E i \in 1..Len(runStart.places) :
       /\ runStart.places[i].googleMapsUrl = "'maps/2'"
       /\ RelsTo(runStart, i) # {}
  /\ \E i \in 1..Len(runStart.places) :
       /\ runStart.places[i].googleMapsUrl = "'maps/1'"
       /\ store.places[i] # runStart.places[i]

\* C24: in every store that runs from the empty store reach, a Place node with
\* a prefecture has a HAS_PLACE relationship from the one Region node of that
\* name, and every HAS_PLACE relationship goes from a Region node of the store
\* to a Place node of the store.
C24_ReferentialConsistency ==
  /\ \A p \in 1..Len(store.places) :
       store.places[p].prefecture # "null" =>
         /\ Cardinality(MatchRegions(store, store.places[p].prefecture)) = 1
         /\ \E r \in MatchRegions(store, store.places[p].prefecture) :
              [from |-> r, to |-> p] \in RelsTo(store, p)
  /\ \A i \in 1..Len(store.rels) :
       /\ store.rels[i].from \in 1..Len(store.regions)
       /\ store.rels[i].to \in 1..Len(store.places)

\* a Place that moved from 'Tokyo' to 'Osaka': both Regions point to it
C24_Witness ==
  /\ pc = "exited"
  /\ \E p \in 1..Len(store.places) :
       /\ store.places[p].prefecture = "'Osaka'"
       /\ Cardinality(RelsTo(store, p)) = 2
  /\ \E p \in 1..Len(store.places) :
       /\ store.places[p].prefecture = "'Tokyo'"
       /\ Cardinality(RelsTo(store, p)) = 1

\* C25: normalizePlace returns a canonical record or the rejection marker for
\* every raw record, a null record and a record with a null or missing
\* geometry, properties or location among them, and never throws; the
\* map/filter of main then does not throw either.
C25_Total ==
  /\ ret.fn = "normalizePlace" =>
       /\ ~IsRaised(ret.value)
       /\ IsRejected(ret.value) \/ DOMAIN ret.value = DOMAIN NewPlace("'maps/1'")
  /\ ret.fn = "mapFilter" =>
       /\ ~ret.raised
       /\ \A k \in 1..Len(ret.value) : DOMAIN ret.value[k] = DOMAIN NewPlace("'maps/1'")

\* a record between a null record and a record whose location is null
C25_Witness ==
  /\ ret.fn = "mapFilter" /\ Len(arg.features) = 3
  /\ arg.features[1].isNull /\ arg.features[3].properties.location.isNull
  /\ ~Excluded(arg.features[2])
  /\ Len(ret.value) = 1

\* this process has opened its session
SessionOpened == sessionDatabase # "none"
CleanedUp == closes = <<"session", "driver">>

PlaceFields ==
  {"name", "google_maps_url", "type", "description", "address", "latitude",
   "longitude", "prefecture", "saved_list", "visited", "category",
   "activity_type", "date"}

\* the value of a scalar field of a Place: the node property of the same name
\* (the type has no @alias), null when the node has no such property
placeField(node, field) ==
  IF field \in DOMAIN node THEN node[field] ELSE "null"

\* C27: every attribute the seeder writes on a Place is stored under a name
\* the Place type reads, and a Place the seeder wrote gives its identity key,
\* saved-list tag and saved timestamp through google_maps_url, saved_list and
\* date.
C27_SchemaAgreement ==
  \A p \in 1..Len(store.places) :
    /\ \A a \in MutableAttributes \cup {"googleMapsUrl"} : a \in PlaceFields
    /\ placeField(store.places[p], "google_maps_url") = store.places[p].googleMapsUrl
    /\ placeField(store.places[p], "saved_list") = store.places[p].savedList
    /\ placeField(store.places[p], "date") = store.places[p].dateSaved

====
